---- MODULE Spec2Model ----
(***************************************************************************)
(* A model of MerkleTools (src/src/merkletools.ts): the leaf store, the    *)
(* two tree builders, the proof walk and the proof verifier.               *)
(*                                                                         *)
(* Bytes.  A Buffer is a sequence of byte blocks.  A block is either a raw *)
(* byte (k = "b", v its value) or a digest (k = "h", of = the buffer that  *)
(* was hashed): the hash is a free constructor, so it is collision-free    *)
(* and hash(hash(x)) # hash(x).  A digest block stands for all the bytes   *)
(* of one digest.                                                          *)
(*                                                                         *)
(* Strings.  A JavaScript string is a sequence of characters.  A character *)
(* is a literal (c = its one-letter name) or one of the two halves of the  *)
(* hex rendering of a digest block (c = "#").                              *)
(***************************************************************************)
EXTENDS Integers, Sequences, FiniteSets, TLC

VARIABLES
  tree,   \* this.tree of the one MerkleTools instance
  added,  \* history: the leaves pushed by addLeaf since construction or reset
  last    \* the last public call: its name, its arguments and what it returned

vars == <<tree, added, last>>

\* Most leaves added between two resets.
MaxLeaves == 4

\* doHash is passed only while fewer leaves than this have been added.
MaxHashedPrefix == 1

----------------------------------------------------------------------------
(* Bytes and characters *)

Byte(n) == [k |-> "b", v |-> n, of |-> <<>>]

Digest(buf) == [k |-> "h", v |-> 0, of |-> buf]

Lit(c) == [c |-> c, of |-> <<>>, half |-> 0]

DigestChar(blk, h) == [c |-> "#", of |-> <<blk>>, half |-> h]

LowerDigits ==
  <<"0", "1", "2", "3", "4", "5", "6", "7", "8", "9", "a", "b", "c", "d", "e", "f">>

UpperDigits ==
  <<"0", "1", "2", "3", "4", "5", "6", "7", "8", "9", "A", "B", "C", "D", "E", "F">>

\* The character class [0-9A-Fa-f] of the regular expression of isHex.
IsHexChar(ch) ==
  \/ ch.c = "#"
  \/ \E i \in 1..16 : LowerDigits[i] = ch.c \/ UpperDigits[i] = ch.c

\* The value of one literal hex digit, as Buffer.from(s, 'hex') reads it.
HexVal(ch) ==
  (CHOOSE i \in 1..16 : LowerDigits[i] = ch.c \/ UpperDigits[i] = ch.c) - 1

\* The UTF-8 code of a literal character: what hashing a string consumes.
CharCode(ch) ==
  IF \E i \in 1..10 : LowerDigits[i] = ch.c THEN 48 + HexVal(ch)
  ELSE IF \E i \in 11..16 : LowerDigits[i] = ch.c THEN 87 + HexVal(ch)
  ELSE IF \E i \in 11..16 : UpperDigits[i] = ch.c THEN 55 + HexVal(ch)
  ELSE 122

Utf8(str) == [i \in 1..Len(str) |-> Byte(CharCode(str[i]))]

\* buf.toString('hex'): two lower-case digits for each byte.
BlockHex(blk) ==
  IF blk.k = "b"
  THEN <<Lit(LowerDigits[(blk.v \div 16) + 1]), Lit(LowerDigits[(blk.v % 16) + 1])>>
  ELSE <<DigestChar(blk, 0), DigestChar(blk, 1)>>

toStringHex(buf) ==
  [i \in 1..(2 * Len(buf)) |-> BlockHex(buf[(i + 1) \div 2])[2 - (i % 2)]]

\* One pair of hex characters decoded to a byte block.
PairByte(hi, lo) ==
  IF hi.c = "#" /\ lo.c = "#" /\ hi.of = lo.of /\ hi.half = 0 /\ lo.half = 1
  THEN hi.of[1]
  ELSE IF hi.c # "#" /\ lo.c # "#"
  THEN Byte(16 * HexVal(hi) + HexVal(lo))
  ELSE Byte(0)

\* Buffer.from(str, 'hex') on a string of hex digits: one byte for each full
\* pair of digits; a trailing unpaired digit is dropped.
bufferFromHex(str) ==
  [i \in 1..(Len(str) \div 2) |-> PairByte(str[2 * i - 1], str[2 * i])]

----------------------------------------------------------------------------
(* Values handed to the public operations: string | Buffer *)

BufV(buf) == [t |-> "buf", buf |-> buf, str |-> <<>>]

StrV(str) == [t |-> "str", buf |-> <<>>, str |-> str]

\* /^[0-9A-Fa-f]{2,}$/ : two or more characters, all hex digits.
isHex(str) ==
  /\ Len(str) >= 2
  /\ \A i \in 1..Len(str) : IsHexChar(str[i])

\* hashFunction: the digest of the bytes of a Buffer or of the UTF-8 bytes
\* of a string.
hashFunction(value) ==
  IF value.t = "buf" THEN <<Digest(value.buf)>> ELSE <<Digest(Utf8(value.str))>>

\* getBuffer: a Buffer passes through, a hex string is decoded, anything
\* else throws.
getBuffer(value) ==
  IF value.t = "buf" THEN [threw |-> FALSE, buf |-> value.buf]
  ELSE IF isHex(value.str) THEN [threw |-> FALSE, buf |-> bufferFromHex(value.str)]
  ELSE [threw |-> TRUE, buf |-> <<>>]

----------------------------------------------------------------------------
(* Results of the public operations *)

Null == [kind |-> "null", val |-> <<>>]

Value(v) == [kind |-> "value", val |-> v]

Bool(b) == [kind |-> "bool", val |-> b]

Threw == [kind |-> "throw", val |-> <<>>]

Void == [kind |-> "void", val |-> <<>>]

----------------------------------------------------------------------------
(* The tree: ITree.  When levels is not empty its last element is the very *)
(* array object that leaves names (makeTree and makeBTCTree unshift        *)
(* this.tree.leaves itself, and only resetTree replaces the arrays), so a  *)
(* push onto one of the two is a push onto the other.                      *)

EmptyTree == [isReady |-> FALSE, leaves |-> <<>>, levels |-> <<>>]

\* this.tree.leaves.push(b), seen through both names of the array.
PushLeaf(t, b) ==
  [t EXCEPT !.leaves = Append(@, b),
            !.levels = IF @ = <<>> THEN @
                       ELSE [@ EXCEPT ![Len(@)] = Append(@, b)]]

\* A resetTree that empties the arrays and forgets the readiness flag.
resetTreeKeepsReady(t) == [EmptyTree EXCEPT !.isReady = t.isReady]

resetTree(t) == EmptyTree

\* addLeaf: readiness is cleared first, then the value is hashed if asked,
\* coerced, and pushed.  A throw of getBuffer leaves what was done before it.
addLeaf(t, value, doHash) ==
  LET t1 == [t EXCEPT !.isReady = FALSE]
      v  == IF doHash THEN BufV(hashFunction(value)) ELSE value
      g  == getBuffer(v)
  IN  IF g.threw THEN [tree |-> t1, threw |-> TRUE]
      ELSE [tree |-> PushLeaf(t1, g.buf), threw |-> FALSE]

RECURSIVE addLeavesFrom(_, _, _, _)
\* valuesArray.forEach from element i on; an exception ends the iteration.
addLeavesFrom(t, valuesArray, doHash, i) ==
  IF i > Len(valuesArray) THEN [tree |-> t, threw |-> FALSE]
  ELSE LET r == addLeaf(t, valuesArray[i], doHash)
       IN  IF r.threw THEN r
           ELSE addLeavesFrom(r.tree, valuesArray, doHash, i + 1)

addLeaves(t, valuesArray, doHash) == addLeavesFrom(t, valuesArray, doHash, 1)

getLeaf(t, index) ==
  IF index < 0 \/ index > Len(t.leaves) - 1 THEN Null
  ELSE Value(t.leaves[index + 1])

getLeafCount(t) == Len(t.leaves)

getTreeReadyState(t) == t.isReady

\* The node made of one pair: the hash of the concatenation, hashed again
\* when doubleHash is set.
HashPair(a, b, doubleHash) ==
  IF doubleHash
  THEN hashFunction(BufV(hashFunction(BufV(a \o b))))
  ELSE hashFunction(BufV(a \o b))

\* A calculateNextLevel that hashes an odd end node instead of promoting it.
calculateNextLevelHashesOddEnd(topLevel, doubleHash) ==
  [j \in 1..((Len(topLevel) + 1) \div 2) |->
     IF 2 * j <= Len(topLevel)
     THEN HashPair(topLevel[2 * j - 1], topLevel[2 * j], doubleHash)
     ELSE HashPair(topLevel[2 * j - 1], <<>>, doubleHash)]

\* calculateNextLevel on topLevel = levels[0] (0-based x = 2 * (j - 1)).
calculateNextLevel(topLevel, doubleHash) ==
  LET topLevelCount == Len(topLevel)
  IN  [j \in 1..((topLevelCount + 1) \div 2) |->
         IF 2 * j <= topLevelCount
         THEN HashPair(topLevel[2 * j - 1], topLevel[2 * j], doubleHash)
         ELSE topLevel[2 * j - 1]]

\* calculateBTCNextLevel: topLevel after the push that duplicates an odd end.
BTCExtended(topLevel) ==
  IF Len(topLevel) % 2 = 1 THEN Append(topLevel, topLevel[Len(topLevel)])
  ELSE topLevel

\* calculateBTCNextLevel: the nodes it returns; the loop runs to the count
\* read before the push.
calculateBTCNextLevel(topLevel, doubleHash) ==
  LET topLevelCount == Len(topLevel)
      ext == BTCExtended(topLevel)
  IN  [j \in 1..((topLevelCount + 1) \div 2) |->
         HashPair(ext[2 * j - 1], ext[2 * j], doubleHash)]

RECURSIVE makeTreeLoop(_, _)
\* while (levels[0].length > 1) levels.unshift(calculateNextLevel(doubleHash))
makeTreeLoop(levels, doubleHash) ==
  IF Len(levels[1]) > 1
  THEN makeTreeLoop(<<calculateNextLevel(levels[1], doubleHash)>> \o levels, doubleHash)
  ELSE levels

RECURSIVE makeBTCTreeLoop(_, _)
\* while (levels[0].length > 1) levels.unshift(calculateBTCNextLevel(doubleHash)),
\* the push onto levels[0] included.
makeBTCTreeLoop(levels, doubleHash) ==
  IF Len(levels[1]) > 1
  THEN makeBTCTreeLoop(
         <<calculateBTCNextLevel(levels[1], doubleHash)>>
           \o [levels EXCEPT ![1] = BTCExtended(@)],
         doubleHash)
  ELSE levels

\* A makeTree that sets the readiness flag inside the leafCount > 0 branch.
makeTreeReadyInsideBranch(t, doubleHash) ==
  IF Len(t.leaves) > 0
  THEN [t EXCEPT !.isReady = TRUE,
                 !.levels = makeTreeLoop(<<t.leaves>>, doubleHash)]
  ELSE [t EXCEPT !.isReady = FALSE]

makeTree(t, doubleHash) ==
  IF Len(t.leaves) > 0
  THEN [t EXCEPT !.isReady = TRUE,
                 !.levels = makeTreeLoop(<<t.leaves>>, doubleHash)]
  ELSE [t EXCEPT !.isReady = TRUE]

\* The leaf level is the last level and is the leaves array itself, so the
\* duplicate pushed onto it is pushed onto leaves.
makeBTCTree(t, doubleHash) ==
  IF Len(t.leaves) > 0
  THEN LET lv == makeBTCTreeLoop(<<t.leaves>>, doubleHash)
       IN  [t EXCEPT !.isReady = TRUE, !.levels = lv, !.leaves = lv[Len(lv)]]
  ELSE [t EXCEPT !.isReady = TRUE]

getMerkleRoot(t) ==
  IF ~t.isReady \/ Len(t.levels) = 0 THEN Null
  ELSE Value(t.levels[1][1])

----------------------------------------------------------------------------
(* Proofs: ISibling[] *)

\* An optional string field of ISibling.
None == [has |-> FALSE, str |-> <<>>]

Some(str) == [has |-> TRUE, str |-> str]

LeftSibling(str) == [left |-> Some(str), right |-> None]

RightSibling(str) == [left |-> None, right |-> Some(str)]

NoSibling == [left |-> None, right |-> None]

\* if (leaf.left): undefined and the empty string are both falsy.
Truthy(opt) == opt.has /\ opt.str # <<>>

RECURSIVE getProofWalk(_, _, _, _)
\* The for loop of getProof at 0-based level x, x > 0, with the proof so far.
\* Reading a sibling index outside the level yields undefined, and
\* undefined.toString throws.
getProofWalk(levels, x, index, proof) ==
  IF x <= 0 THEN Value(proof)
  ELSE LET currentLevelNodeCount == Len(levels[x + 1])
           isRightNode == index % 2
           siblingIndex == IF isRightNode = 1 THEN index - 1 ELSE index + 1
       IN  IF index = currentLevelNodeCount - 1 /\ currentLevelNodeCount % 2 = 1
           THEN getProofWalk(levels, x - 1, index \div 2, proof)
           ELSE IF siblingIndex < 0 \/ siblingIndex > currentLevelNodeCount - 1
           THEN Threw
           ELSE LET siblingValue == toStringHex(levels[x + 1][siblingIndex + 1])
                    sibling == IF isRightNode = 1 THEN LeftSibling(siblingValue)
                               ELSE RightSibling(siblingValue)
                IN  getProofWalk(levels, x - 1, index \div 2, Append(proof, sibling))

\* getProof.  On a ready tree whose level stack is empty currentRowIndex is
\* -1, levels[-1] is undefined and reading its length throws a TypeError.
getProof(t, index) ==
  IF ~t.isReady THEN Null
  ELSE LET currentRowIndex == Len(t.levels) - 1
       IN  IF currentRowIndex < 0 THEN Threw
           ELSE IF index < 0 \/ index > Len(t.levels[currentRowIndex + 1]) - 1
           THEN Null
           ELSE getProofWalk(t.levels, currentRowIndex, index, <<>>)

\* One hashing step of validateProof.
ProofStep(a, b, doubleHash) == HashPair(a, b, doubleHash)

RECURSIVE validateProofFold(_, _, _, _, _)
\* The for loop of validateProof from entry i on, proofHash the running hash.
validateProofFold(proof, i, proofHash, merkleRoot, doubleHash) ==
  IF i > Len(proof)
  THEN Bool(toStringHex(proofHash) = toStringHex(merkleRoot))
  ELSE LET leaf == proof[i]
       IN  IF Truthy(leaf.left)
           THEN LET g == getBuffer(StrV(leaf.left.str))
                IN  IF g.threw THEN Threw
                    ELSE validateProofFold(proof, i + 1,
                           ProofStep(g.buf, proofHash, doubleHash),
                           merkleRoot, doubleHash)
           ELSE IF Truthy(leaf.right)
           THEN LET g == getBuffer(StrV(leaf.right.str))
                IN  IF g.threw THEN Threw
                    ELSE validateProofFold(proof, i + 1,
                           ProofStep(proofHash, g.buf, doubleHash),
                           merkleRoot, doubleHash)
           ELSE Bool(FALSE)

validateProof(proof, targetHash, merkleRoot, doubleHash) ==
  LET t == getBuffer(targetHash)
      r == getBuffer(merkleRoot)
  IN  IF t.threw \/ r.threw THEN Threw
      ELSE IF Len(proof) = 0
      THEN Bool(toStringHex(t.buf) = toStringHex(r.buf))
      ELSE validateProofFold(proof, 1, t.buf, r.buf, doubleHash)

----------------------------------------------------------------------------
(* The values the callers pass *)

EmptyBuf == BufV(<<>>)

HexAA == StrV(<<Lit("a"), Lit("a")>>)

\* Odd length, three hex digits.
HexOdd == StrV(<<Lit("A"), Lit("a"), Lit("b")>>)

\* A single hex digit.
HexOne == StrV(<<Lit("a")>>)

NotHex == StrV(<<Lit("z"), Lit("z")>>)

EmptyStr == StrV(<<>>)

\* The strings the regular expression of isHex rejects.
BadStrings == {NotHex, EmptyStr, HexOne}

\* The strings that are not an even, positive number of hex digits.
InvalidHex == BadStrings \cup {HexOdd}

LeafInputs ==
  ({EmptyBuf, HexAA, HexOdd} \cup BadStrings) \X {FALSE}
    \cup {<<NotHex, TRUE>>}

LeavesInputs ==
  {<<>>, <<HexAA, EmptyBuf>>, <<HexAA, NotHex>>} \X {FALSE}
    \cup {<<<<NotHex>>, TRUE>>}

\* Sibling lists no getProof returns.
BadProofs ==
  { <<NoSibling>>,
    <<LeftSibling(<<>>)>>,
    <<RightSibling(NotHex.str)>>,
    <<LeftSibling(HexAA.str), NoSibling>>,
    <<NoSibling, RightSibling(NotHex.str)>>,
    <<RightSibling(HexAA.str), LeftSibling(HexOne.str)>> }

\* Sibling lists with one well-formed record.
PlainProofs == { <<>>, <<RightSibling(HexAA.str)>> }

\* The targetHash and merkleRoot values of the made-up calls.
HashInputs ==
  {HexAA, NotHex, BufV(<<Byte(170)>>), BufV(hashFunction(BufV(<<Byte(170), Byte(170)>>)))}

\* Every index of a leaf, and the two next to them.
AllIndices(t) == -1..Len(t.leaves)

\* The indices the read actions are called with: the two ends of the leaf
\* sequence and the two indices just outside it.
Indices == {-1, 0, Len(tree.leaves) - 1, Len(tree.leaves)}

Call(op, arg, res) == [op |-> op, arg |-> arg, res |-> res]

----------------------------------------------------------------------------
(* The state machine: one action for each public operation *)

Init ==
  /\ tree = EmptyTree
  /\ added = <<>>
  /\ last = Call("new", <<>>, Void)

ResetTree ==
  /\ tree' = resetTree(tree)
  /\ added' = <<>>
  /\ last' = Call("resetTree", <<>>, Void)

\* The leaves a call pushed: those of t2 beyond the ones of t1.
Pushed(t1, t2) == SubSeq(t2.leaves, Len(t1.leaves) + 1, Len(t2.leaves))

AddLeaf ==
  \E in \in LeafInputs :
    LET r == addLeaf(tree, in[1], in[2])
    IN  /\ Len(added) < MaxLeaves
        /\ in[2] => Len(added) < MaxHashedPrefix
        /\ tree' = r.tree
        /\ added' = added \o Pushed(tree, r.tree)
        /\ last' = Call("addLeaf", [value |-> in[1], doHash |-> in[2]],
                        IF r.threw THEN Threw ELSE Void)

AddLeaves ==
  \E in \in LeavesInputs :
    LET r == addLeaves(tree, in[1], in[2])
    IN  /\ Len(added) + Len(in[1]) <= MaxLeaves
        /\ in[2] => Len(added) + Len(in[1]) <= MaxHashedPrefix
        /\ tree' = r.tree
        /\ added' = added \o Pushed(tree, r.tree)
        /\ last' = Call("addLeaves", [values |-> in[1], doHash |-> in[2]],
                        IF r.threw THEN Threw ELSE Void)

MakeTree ==
  \E doubleHash \in BOOLEAN :
    /\ tree' = makeTree(tree, doubleHash)
    /\ last' = Call("makeTree", doubleHash, Void)
    /\ UNCHANGED added

MakeBTCTree ==
  \E doubleHash \in BOOLEAN :
    /\ tree' = makeBTCTree(tree, doubleHash)
    /\ last' = Call("makeBTCTree", doubleHash, Void)
    /\ UNCHANGED added

GetLeaf ==
  \E index \in Indices :
    /\ last' = Call("getLeaf", index, getLeaf(tree, index))
    /\ UNCHANGED <<tree, added>>

GetLeafCount ==
  /\ last' = Call("getLeafCount", <<>>, Value(getLeafCount(tree)))
  /\ UNCHANGED <<tree, added>>

GetTreeReadyState ==
  /\ last' = Call("getTreeReadyState", <<>>, Bool(getTreeReadyState(tree)))
  /\ UNCHANGED <<tree, added>>

GetMerkleRoot ==
  /\ last' = Call("getMerkleRoot", <<>>, getMerkleRoot(tree))
  /\ UNCHANGED <<tree, added>>

GetProof ==
  \E index \in Indices :
    /\ last' = Call("getProof", index, getProof(tree, index))
    /\ UNCHANGED <<tree, added>>

\* validateProof on what getProof, getLeaf and getMerkleRoot returned.
ValidateOwnProof ==
  \E index \in Indices, doubleHash \in BOOLEAN :
    LET p == getProof(tree, index)
        l == getLeaf(tree, index)
        r == getMerkleRoot(tree)
    IN  /\ p.kind = "value" /\ l.kind = "value" /\ r.kind = "value"
        /\ last' = Call("validateProof",
                        [proof |-> p.val, targetHash |-> BufV(l.val),
                         merkleRoot |-> BufV(r.val), doubleHash |-> doubleHash],
                        validateProof(p.val, BufV(l.val), BufV(r.val), doubleHash))
        /\ UNCHANGED <<tree, added>>

\* validateProof on a sibling list the caller made up.
ValidateProof ==
  \E proof \in BadProofs \cup PlainProofs, targetHash \in HashInputs,
     merkleRoot \in HashInputs, doubleHash \in BOOLEAN :
    /\ last' = Call("validateProof",
                    [proof |-> proof, targetHash |-> targetHash,
                     merkleRoot |-> merkleRoot, doubleHash |-> doubleHash],
                    validateProof(proof, targetHash, merkleRoot, doubleHash))
    /\ UNCHANGED <<tree, added>>

Next ==
  \/ ResetTree
  \/ AddLeaf
  \/ AddLeaves
  \/ MakeTree
  \/ MakeBTCTree
  \/ GetLeaf
  \/ GetLeafCount
  \/ GetTreeReadyState
  \/ GetMerkleRoot
  \/ GetProof
  \/ ValidateOwnProof

Spec == Init /\ [][Next]_vars

\* validateProof alone, as the function of its arguments that it is (it reads
\* nothing of the tree), on sibling lists the caller made up.
NextValidate == ValidateProof

SpecValidate == Init /\ [][NextValidate]_vars

----------------------------------------------------------------------------
(* Properties *)

\* The indices of the leaves of the store.
LeafIndices(t) == 0..(getLeafCount(t) - 1)

\* validateProof(getProof(i), getLeaf(i), getMerkleRoot(), doubleHash) on tree t.
OwnProofResult(t, i, doubleHash) ==
  validateProof(getProof(t, i).val, BufV(getLeaf(t, i).val),
                BufV(getMerkleRoot(t).val), doubleHash)

IsTrue(res) == res.kind = "bool" /\ res.val

IsFalse(res) == res.kind = "bool" /\ ~res.val

\* C1: after makeTree() on a non-empty leaf sequence, for every index i of a
\* leaf, getProof(i) is a proof and validateProof(getProof(i), getLeaf(i),
\* getMerkleRoot()) returns true.
C1_RoundTrip ==
  (last.op = "makeTree" /\ last.arg = FALSE /\ getLeafCount(tree) > 0) =>
    \A i \in LeafIndices(tree) :
      /\ getProof(tree, i).kind = "value"
      /\ IsTrue(OwnProofResult(tree, i, FALSE))

\* C2: an addLeaf(value) whose value is a string that is not valid hex (odd
\* length, a character that is no hex digit, or empty) raises and leaves the
\* leaves, the levels and the readiness flag as they were.
C2_FailedAddLeafLeavesTree ==
  [][ (last'.op = "addLeaf" /\ ~last'.arg.doHash /\ last'.arg.value \in InvalidHex)
        => (last'.res.kind = "throw" /\ tree' = tree) ]_vars

\* The number of nodes of the leaf level: of the leaf array, which the last
\* level is when there are levels.
LeafLevelCount(t) ==
  IF t.levels = <<>> THEN Len(t.leaves) ELSE Len(t.levels[Len(t.levels)])

\* C3: in every reachable state getProof(index) returns absence, and does not
\* raise, when the tree is not ready or index is negative or at least the
\* number of nodes of the leaf level.
C3_GetProofAbsent ==
  \A index \in AllIndices(tree) :
    (~tree.isReady \/ index < 0 \/ index >= LeafLevelCount(tree)) =>
      getProof(tree, index).kind = "null"

WellFormed(value) == ~getBuffer(value).threw

\* C4: with targetHash and merkleRoot well formed, validateProof returns false,
\* and does not raise, on a sibling list with a record that has neither tag,
\* an empty tag value or a tag value that is not valid hex.
C4_ValidateNeverRaises ==
  ( /\ last.op = "validateProof"
    /\ last.arg.proof \in BadProofs
    /\ WellFormed(last.arg.targetHash)
    /\ WellFormed(last.arg.merkleRoot) ) => IsFalse(last.res)

ReadOps ==
  {"getLeaf", "getLeafCount", "getTreeReadyState", "getMerkleRoot", "getProof",
   "validateProof"}

\* C5: readiness is false at construction, false after every addLeaf or
\* addLeaves that appended a leaf and after every resetTree, true after every
\* makeTree and makeBTCTree (zero and one leaf included), and no read
\* operation changes it.
C5_ReadinessLifecycle ==
  /\ ~getTreeReadyState(tree)
  /\ [][ /\ (last'.op \in {"addLeaf", "addLeaves"}
               /\ getLeafCount(tree') > getLeafCount(tree))
             => ~getTreeReadyState(tree')
         /\ last'.op = "resetTree" => ~getTreeReadyState(tree')
         /\ last'.op \in {"makeTree", "makeBTCTree"} => getTreeReadyState(tree')
         /\ last'.op \in ReadOps
             => getTreeReadyState(tree') = getTreeReadyState(tree) ]_vars

\* A build of zero leaves has just made the tree ready.
C5_Witness ==
  /\ last.op = "makeBTCTree"
  /\ getLeafCount(tree) = 0
  /\ getTreeReadyState(tree)

\* C6: right after resetTree() the leaf count is 0, the tree is not ready,
\* and getMerkleRoot() and getProof(0) return absence.
C6_ResetClears ==
  last.op = "resetTree" =>
    /\ getLeafCount(tree) = 0
    /\ ~getTreeReadyState(tree)
    /\ getMerkleRoot(tree).kind = "null"
    /\ getProof(tree, 0).kind = "null"

\* A reset has just been done.
C6_Witness == last.op = "resetTree" /\ tree = EmptyTree /\ added = <<>>

\* C7: after makeTree(true) on a non-empty leaf sequence, for every index i of
\* a leaf, validateProof(getProof(i), getLeaf(i), getMerkleRoot(), true) is
\* true, and the same call with doubleHash false is false when the proof is
\* not empty.
C7_DoubleHashRoundTrip ==
  (last.op = "makeTree" /\ last.arg = TRUE /\ getLeafCount(tree) > 0) =>
    \A i \in LeafIndices(tree) :
      /\ getProof(tree, i).kind = "value"
      /\ IsTrue(OwnProofResult(tree, i, TRUE))
      /\ Len(getProof(tree, i).val) > 0 => IsFalse(OwnProofResult(tree, i, FALSE))

\* The hash of the claims: one digest of the bytes, or the digest of that
\* digest.
RefHash(bytes, doubleHash) ==
  IF doubleHash THEN <<Digest(<<Digest(bytes)>>)>> ELSE <<Digest(bytes)>>

RECURSIVE BTCReferenceRoot(_, _)
\* The reference fold of C9: while the level has more than one node, an odd
\* level gets its last node again, and every pair is hashed.
BTCReferenceRoot(level, doubleHash) ==
  IF Len(level) = 1 THEN level[1]
  ELSE LET ext == IF Len(level) % 2 = 1 THEN Append(level, level[Len(level)])
                  ELSE level
       IN  BTCReferenceRoot(
             [j \in 1..(Len(ext) \div 2) |->
                RefHash(ext[2 * j - 1] \o ext[2 * j], doubleHash)],
             doubleHash)

\* C9: after makeBTCTree(doubleHash) with n >= 1 leaves added, getMerkleRoot()
\* is the reference fold over the leaves added.
C9_BTCRootIsReferenceFold ==
  (last.op = "makeBTCTree" /\ Len(added) >= 1) =>
    /\ getMerkleRoot(tree).kind = "value"
    /\ getMerkleRoot(tree).val = BTCReferenceRoot(added, last.arg)

\* C10: makeTree and makeBTCTree leave getLeafCount() and every getLeaf(i) as
\* they were; only addLeaf, addLeaves and resetTree change the leaf sequence.
C10_BuildKeepsLeaves ==
  [][ last'.op \notin {"addLeaf", "addLeaves", "resetTree"}
        => /\ getLeafCount(tree') = getLeafCount(tree)
           /\ \A i \in LeafIndices(tree) : getLeaf(tree', i) = getLeaf(tree, i) ]_vars

\* A fresh instance on which the leaves of a sequence are added in order and
\* the named build is called once.
FreshBuild(leaves, op, doubleHash) ==
  LET fresh == addLeaves(EmptyTree, [i \in 1..Len(leaves) |-> BufV(leaves[i])],
                         FALSE).tree
  IN  IF op = "makeTree" THEN makeTree(fresh, doubleHash)
      ELSE makeBTCTree(fresh, doubleHash)

\* C11: after any calls since the last reset, the root right after a
\* makeTree(d) or makeBTCTree(d) is the root of a fresh instance given the
\* same added values in the same order and the same build once.
C11_RootHistoryIndependent ==
  last.op \in {"makeTree", "makeBTCTree"} =>
    LET here  == getMerkleRoot(tree)
        there == getMerkleRoot(FreshBuild(added, last.op, last.arg))
    IN  here.kind = there.kind /\ here.val = there.val

\* C12: after makeBTCTree(d) with a non-empty sequence of leaves added, for
\* every index i of an added leaf, getProof(i) is a proof and
\* validateProof(getProof(i), getLeaf(i), getMerkleRoot(), d) returns true.
C12_BTCRoundTrip ==
  (last.op = "makeBTCTree" /\ Len(added) >= 1) =>
    \A i \in 0..(Len(added) - 1) :
      /\ getProof(tree, i).kind = "value"
      /\ IsTrue(OwnProofResult(tree, i, last.arg))

====
